---------------------------- MODULE Spec2Model ----------------------------
(***************************************************************************)
(* A model of loguru's simple sinks (src/loguru/_simple_sinks.py), of the  *)
(* ErrorInterceptor (src/loguru/_error_interceptor.py) and of the          *)
(* RecordException pickling support (src/loguru/_recattrs.py).             *)
(*                                                                         *)
(* The asynchronous sink is modelled together with the part of asyncio it  *)
(* relies on: a task ("unit") is created pending, may be asked to cancel,  *)
(* finishes as ok / failed / cancelled, has its done-callbacks run in the  *)
(* order they were added, and is dropped from the WeakSet once nothing     *)
(* references it any more.                                                 *)
(***************************************************************************)
EXTENDS Integers, Sequences, FiniteSets, TLC

\* ------------------------------------------------------------------ bounds
MaxWrites == 2
MaxSnaps == 1
\* calls made on a synchronous sink
MaxSyncOps == 3
\* length of an exception's args
MaxArgs == 2
\* length of a record's name
MaxNameLen == 2
\* number of entries of a level_per_module mapping
MaxEntries == 2

\* ------------------------------------------------------------- value sets
None == "None"
Loops == {"L1", "L2"}
\* the loop given to AsyncSink(): none, or one of the two (which one is immaterial)
BoundLoops == {None, "L1"}
\* "bad" is a message whose str() raises
Messages == {"m1", "bad"}
HandlerIds == {0, 7}
DeliveryError == "DeliveryError"
CancelledError == "CancelledError"
\* the errors that derive from Exception; CancelledError derives from BaseException only
ExceptionKinds == {DeliveryError, "OSError", "ValueError", "RuntimeError", "TypeError"}
Unprintable == "/!\\ Unprintable record /!\\"

\* the Handler's lock when nobody holds it
Free == [by |-> "free", id |-> 0]

\* no call of print
NoEnv == [mode |-> "unused", step |-> 0]
\* The state of sys.stderr met by one call of ErrorInterceptor.print: usable,
\* missing (None / falsy), or raising `mode` at the `step`-th write to it.
StderrEnvs ==
    {[mode |-> "ok", step |-> 0], [mode |-> "none", step |-> 0]}
        \cup [mode : {"OSError", "ValueError"}, step : 1..4]

VARIABLES
    sinkLoop,       \* AsyncSink._loop: a loop of Loops, or None
    shouldCatch,    \* ErrorInterceptor._should_catch
    handlerId,      \* ErrorInterceptor._handler_id
    tasks,          \* AsyncSink._tasks: the WeakSet, as the set of unit ids in it
    units,          \* every task created by write(), in creation order
    nWrites,        \* number of write() calls made so far
    noLoopCalls,    \* number of write() calls made with no bound and no running loop
    deliverCalls,   \* number of calls of self._function
    snaps,          \* the lists returned by tasks_to_complete(), in call order
    callerErrors,   \* exceptions raised synchronously out of write/stop/tasks_to_complete
    stopped,        \* stop() has been called
    lock,           \* the Handler's lock: "free" or its holder
    dpc,            \* where the Handler's shutdown (the drainer) stands
    relog,          \* the pending units whose delivery function logs again
    captured,       \* the state dict returned by __getstate__()
    restored,       \* the __dict__ of the sink that __setstate__() filled
    syncSink,       \* a synchronous sink: its class and what __init__ found on the destination
    dest,           \* the calls the wrapped destination has received, in order
    syncResult,     \* the last return value of a synchronous tasks_to_complete()
    syncOps,        \* number of calls made on the synchronous sink
    exRecord,       \* a RecordException on the sending side
    wire,           \* what its __reduce__ returned
    rebuilt,        \* the RecordException built on the receiving side
    pkPc,           \* how far the pickling round trip has gone
    fName,          \* filter_by_level: record["name"]
    fLevel,         \* filter_by_level: record["level"].no
    fMap,           \* filter_by_level: level_per_module
    fCur,           \* filter_by_level: the local variable `name`
    fPc,            \* filter_by_level: in the loop, or returned
    fRet,           \* filter_by_level: the value returned
    fIter           \* filter_by_level: number of passes through the loop

cfgVars == <<sinkLoop, shouldCatch, handlerId>>
lockVars == <<lock, dpc, relog>>
asyncVars == <<cfgVars, tasks, units, nWrites, noLoopCalls, deliverCalls, snaps,
               callerErrors, stopped, lockVars, captured, restored>>
copyVars == <<captured, restored>>
syncVars == <<syncSink, dest, syncResult, syncOps>>
pickleVars == <<exRecord, wire, rebuilt, pkPc>>
\* what the asynchronous sink never touches
filterVars == <<fName, fLevel, fMap, fCur, fPc, fRet, fIter>>
otherVars == <<syncVars, pickleVars, copyVars, filterVars>>
vars == <<asyncVars, syncVars, pickleVars, filterVars>>

\* ---------------------------------------------------------------- helpers
RECURSIVE SetToSeq(_)
SetToSeq(S) ==
    IF S = {} THEN <<>>
    ELSE LET m == CHOOSE x \in S : \A y \in S : x <= y
         IN <<m>> \o SetToSeq(S \ {m})

\* ------------------------------------------------------- ErrorInterceptor
\* should_catch() that always answers yes
ShouldCatchAlways(flag) == TRUE

\* should_catch()
ShouldCatch(flag) == flag

\* str(record), guarded by "except Exception"
RecordRepr(m) == IF m = "bad" THEN Unprintable ELSE m

\* The four writes of print(), in order.
PrintLines(hid, m, exc) ==
    << [line |-> "header", text |-> hid],
       [line |-> "record", text |-> RecordRepr(m)],
       [line |-> "traceback", text |-> exc],
       [line |-> "footer", text |-> None] >>

\* print(record, exception=...): what reaches sys.stderr and what is raised.
\* excInfo stands for sys.exc_info(), used when no exception is passed.
ErrorInterceptorPrint(hid, m, exception, excInfo, env) ==
    LET value == IF exception = None THEN excInfo ELSE exception
        lines == PrintLines(hid, m, value)
    IN IF env.mode = "none"
       THEN [out |-> <<>>, raised |-> None]
       ELSE IF env.mode = "ok"
       THEN [out |-> lines, raised |-> None]
       ELSE [out |-> SubSeq(lines, 1, env.step - 1),
             raised |-> IF env.mode = "OSError" THEN None ELSE env.mode]

\* ------------------------------------------------------------- AsyncSink
\* A task just created by loop.create_task(), with check_exception attached.
\* out and errs collect what its check_exception wrote to sys.stderr and what
\* it raised into the loop's exception handler; env is the stderr it met.
NewUnit(m, loop) ==
    [msg |-> m, loop |-> loop, st |-> "pending", cancelReq |-> FALSE,
     shielded |-> FALSE, obs |-> "attached", env |-> NoEnv,
     out |-> <<>>, errs |-> <<>>]

\* a loop resolution that falls back on a loop of its own making
ResolveLoopFallback(bound, running) ==
    IF bound # None THEN bound ELSE IF running # None THEN running ELSE "L1"

\* "self._loop or get_running_loop()"; None stands for the RuntimeError
ResolveLoop(bound, running) == IF bound # None THEN bound ELSE running

\* future.exception(): raises CancelledError for a cancelled task
TaskException(u) ==
    IF u.st = "cancelled" THEN [raised |-> CancelledError, value |-> None]
    ELSE IF u.st = "failed" THEN [raised |-> None, value |-> DeliveryError]
    ELSE [raised |-> None, value |-> None]

\* future.cancelled()
TaskCancelled(u) == u.st = "cancelled"

\* check_exception that raises the failure even after printing it
CheckExceptionPrintsAndRaises(u, catch, hid, env) ==
    LET exc == TaskException(u)
    IN IF exc.raised # None
       THEN [raised |-> exc.raised, out |-> <<>>, printed |-> FALSE]
       ELSE IF TaskCancelled(u) \/ exc.value = None
       THEN [raised |-> None, out |-> <<>>, printed |-> FALSE]
       ELSE IF ~ShouldCatch(catch)
       THEN [raised |-> exc.value, out |-> <<>>, printed |-> FALSE]
       ELSE LET p == ErrorInterceptorPrint(hid, u.msg, exc.value, None, env)
            IN [raised |-> exc.value, out |-> p.out, printed |-> TRUE]

\* check_exception(future): what it raises into the loop and what it prints
CheckException(u, catch, hid, env) ==
    LET exc == TaskException(u)
    IN IF exc.raised # None
       THEN [raised |-> exc.raised, out |-> <<>>, printed |-> FALSE]
       ELSE IF TaskCancelled(u) \/ exc.value = None
       THEN [raised |-> None, out |-> <<>>, printed |-> FALSE]
       ELSE IF ~ShouldCatch(catch)
       THEN [raised |-> exc.value, out |-> <<>>, printed |-> FALSE]
       ELSE LET p == ErrorInterceptorPrint(hid, u.msg, exc.value, None, env)
            IN [raised |-> p.raised, out |-> p.out, printed |-> TRUE]

\* a write() that calls the delivery function a second time
WriteCallsTwice(m, running) ==
    LET loop == ResolveLoop(sinkLoop, running)
    IN IF loop = None
       THEN UNCHANGED <<units, tasks, deliverCalls>>
       ELSE /\ deliverCalls' = deliverCalls + 2
            /\ units' = Append(units, NewUnit(m, loop))
            /\ tasks' = tasks \cup {Len(units) + 1}

\* the body of write(message), with `running` the caller's running loop (or None)
Write(m, running) ==
    LET loop == ResolveLoop(sinkLoop, running)
    IN IF loop = None
       THEN UNCHANGED <<units, tasks, deliverCalls>>
       ELSE /\ deliverCalls' = deliverCalls + 1
            /\ units' = Append(units, NewUnit(m, loop))
            /\ tasks' = tasks \cup {Len(units) + 1}

\* a call of write(message), counted
AsyncWrite(m, running) ==
    /\ nWrites < MaxWrites
    /\ nWrites' = nWrites + 1
    /\ noLoopCalls' = IF sinkLoop = None /\ running = None
                      THEN noLoopCalls + 1 ELSE noLoopCalls
    /\ Write(m, running)
    /\ UNCHANGED <<otherVars, cfgVars, snaps, callerErrors, stopped, lockVars>>

\* a cancel() that ends the task on the spot, whatever its state
CancelForces(u) == [u EXCEPT !.st = "cancelled", !.cancelReq = FALSE]

\* task.cancel(): a request, and only for a task that is not done
Cancel(u) == IF u.st = "pending" THEN [u EXCEPT !.cancelReq = TRUE] ELSE u

\* the body of stop(): cancel every task of the set
Stop ==
    /\ units' = [i \in DOMAIN units |->
                    IF i \in tasks THEN Cancel(units[i]) ELSE units[i]]
    /\ stopped' = TRUE

\* a call of stop()
AsyncStop ==
    /\ Stop
    /\ UNCHANGED <<otherVars, cfgVars, tasks, nWrites, noLoopCalls, deliverCalls, snaps,
                   callerErrors, lockVars>>

\* One step of the unit on its loop. With a cancellation requested the step
\* throws CancelledError into the coroutine, which ends the task as cancelled
\* unless the delivery function catches it: it may then go on running
\* ("continue") or finish at once. Without a request the unit finishes.
UnitOutcomes(u) ==
    IF u.cancelReq THEN {"cancelled", "continue", "ok", "failed"} ELSE {"ok", "failed"}

UnitStep(i, outcome) ==
    /\ i \in DOMAIN units
    /\ units[i].st = "pending"
    /\ outcome \in UnitOutcomes(units[i])
    /\ units' = [units EXCEPT ![i] =
            IF outcome = "continue"
            THEN [@ EXCEPT !.cancelReq = FALSE, !.shielded = TRUE]
            ELSE [@ EXCEPT !.st = outcome, !.cancelReq = FALSE, !.shielded = FALSE,
                           !.obs = "due"]]
    /\ UNCHANGED <<otherVars, cfgVars, tasks, nWrites, noLoopCalls, deliverCalls, snaps,
                   callerErrors, stopped, lockVars>>

\* The stderr states that check_exception can tell apart for this unit.
ObserverEnvs(u) ==
    IF u.st = "failed" /\ ShouldCatch(shouldCatch) THEN StderrEnvs
    ELSE {[mode |-> "ok", step |-> 0]}

\* a done-callback that logs the message again through the sink
RunObserverReschedules(i, env) ==
    /\ i \in DOMAIN units
    /\ units[i].obs = "due"
    /\ env \in ObserverEnvs(units[i])
    /\ units' = Append([units EXCEPT ![i].obs = "returned"],
                       NewUnit(units[i].msg, units[i].loop))
    /\ tasks' = tasks \cup {Len(units) + 1}
    /\ deliverCalls' = deliverCalls + 1
    /\ UNCHANGED <<otherVars, cfgVars, nWrites, noLoopCalls, snaps,
                   callerErrors, stopped, lockVars>>

\* The loop runs the done-callback check_exception of a finished unit; what it
\* raises goes to the loop's exception handler.
RunObserver(i, env) ==
    /\ i \in DOMAIN units
    /\ units[i].obs = "due"
    /\ env \in ObserverEnvs(units[i])
    /\ LET r == CheckException(units[i], shouldCatch, handlerId, env)
       IN units' = [units EXCEPT ![i] =
              [@ EXCEPT !.obs = IF r.raised = None THEN "returned" ELSE "raised",
                        !.env = IF r.printed THEN env ELSE NoEnv,
                        !.out = @ \o r.out,
                        !.errs = IF r.raised = None THEN @ ELSE Append(@, r.raised)]]
    /\ UNCHANGED <<otherVars, cfgVars, tasks, nWrites, noLoopCalls, deliverCalls, snaps,
                   callerErrors, stopped, lockVars>>

\* handles that keep no reference to their task
HeldByHandleNever(i) == FALSE

\* the handles of tasks_to_complete() that have not finished hold their task
HeldByHandle(i) ==
    \E s \in DOMAIN snaps : \E k \in DOMAIN snaps[s].handles :
        snaps[s].handles[k].unit = i /\ snaps[s].handles[k].st \in {"new", "waiting"}

\* A finished task that nothing references any more leaves the WeakSet.
Reclaim(i) ==
    /\ i \in tasks
    /\ units[i].st # "pending"
    /\ units[i].obs \in {"returned", "raised"}
    /\ ~HeldByHandle(i)
    /\ tasks' = tasks \ {i}
    /\ UNCHANGED <<otherVars, cfgVars, units, nWrites, noLoopCalls, deliverCalls, snaps,
                   callerErrors, stopped, lockVars>>

\* the coroutine object made by self._complete_task(task), not yet awaited
NewHandle(i) == [unit |-> i, st |-> "new", on |-> None]

\* tasks_to_complete() that leaves out the last task of the set
TasksToCompleteDropsOne(set) ==
    [k \in 1..(Cardinality(set) - 1) |-> NewHandle(SetToSeq(set)[k])]

\* tasks_to_complete(): one handle per task of the set
TasksToComplete(set) == [k \in 1..Cardinality(set) |-> NewHandle(SetToSeq(set)[k])]

\* tasks_to_complete() that awaits the tasks itself before returning
CollectReadyAwaits(set) == \A i \in set : units[i].st # "pending"

\* tasks_to_complete() builds its list without awaiting anything: it returns
\* whatever state the tasks are in
CollectReady(set) == TRUE

\* the body of a call of tasks_to_complete(), its result recorded
Collect ==
    /\ Len(snaps) < MaxSnaps
    /\ CollectReady(tasks)
    /\ snaps' = Append(snaps, [afterStop |-> stopped, handles |-> TasksToComplete(tasks)])

\* a call of tasks_to_complete()
AsyncTasksToComplete ==
    /\ Collect
    /\ UNCHANGED <<otherVars, cfgVars, tasks, units, nWrites, noLoopCalls, deliverCalls,
                   callerErrors, stopped, lockVars>>

\* "await task" with no try around it
AwaitDoneReraises(u) ==
    IF u.st \in {"cancelled", "failed"} THEN "raised" ELSE "returned"

\* "await task" on a finished task, inside "try ... except Exception: pass":
\* a failure is swallowed, CancelledError is not an Exception and gets out.
AwaitDone(u) ==
    IF u.st = "cancelled" /\ CancelledError \notin ExceptionKinds THEN "raised"
    ELSE "returned"

\* _complete_task(task) without the test on the loop
CompleteTaskAnyLoop(u, loop) ==
    IF u.st = "pending" THEN "waiting" ELSE AwaitDone(u)

\* _complete_task(task), run on `loop`, up to its first suspension
CompleteTask(u, loop) ==
    IF u.loop # loop THEN "returned"
    ELSE IF u.st = "pending" THEN "waiting"
    ELSE AwaitDone(u)

\* the drainer starts awaiting handle k of snapshot s on the running loop
AwaitHandle(s, k, loop) ==
    /\ s \in DOMAIN snaps
    /\ k \in DOMAIN snaps[s].handles
    /\ snaps[s].handles[k].st = "new"
    /\ snaps' = [snaps EXCEPT ![s].handles[k] =
                    [st |-> CompleteTask(units[@.unit], loop), on |-> loop,
                     unit |-> @.unit]]
    /\ UNCHANGED <<otherVars, cfgVars, tasks, units, nWrites, noLoopCalls, deliverCalls,
                   callerErrors, stopped, lockVars>>

\* A handle suspended in "await task" is woken by a done-callback added after
\* check_exception, so it resumes once the task is done and the observer has run.
ResumeHandle(s, k) ==
    /\ s \in DOMAIN snaps
    /\ k \in DOMAIN snaps[s].handles
    /\ snaps[s].handles[k].st = "waiting"
    /\ units[snaps[s].handles[k].unit].obs \in {"returned", "raised"}
    /\ snaps' = [snaps EXCEPT ![s].handles[k].st =
                    AwaitDone(units[snaps[s].handles[k].unit])]
    /\ UNCHANGED <<otherVars, cfgVars, tasks, units, nWrites, noLoopCalls, deliverCalls,
                   callerErrors, stopped, lockVars>>

\* ------------------------------------------- __getstate__, __setstate__
\* the value of the _tasks attribute: a WeakSet of tasks, or None
WeakSet(S) == [kind |-> "WeakSet", members |-> S]
NoneTasks == [kind |-> "None", members |-> {}]
\* no dict yet
NoDict ==
    [_function |-> None, _loop |-> None,
     _error_interceptor |-> [_should_catch |-> FALSE, _handler_id |-> 0],
     _tasks |-> NoneTasks]
\* self.__dict__ of the sink
SinkDict ==
    [_function |-> "function", _loop |-> sinkLoop,
     _error_interceptor |-> [_should_catch |-> shouldCatch, _handler_id |-> handlerId],
     _tasks |-> WeakSet(tasks)]

\* a __getstate__ that clears _tasks in self.__dict__ itself, not in a copy
GetStateNoCopy(d) ==
    [self |-> [d EXCEPT !._tasks = WeakSet({})],
     state |-> [d EXCEPT !._tasks = NoneTasks]]

\* __getstate__(): the dict of the sink after the call, and the state returned
GetState(d) == [self |-> d, state |-> [d EXCEPT !._tasks = NoneTasks]]

\* __setstate__(state): the dict of the new sink
SetState(state) == [state EXCEPT !._tasks = WeakSet({})]

AsyncGetState ==
    /\ captured = NoDict
    /\ LET r == GetState(SinkDict)
       IN  /\ captured' = r.state
           /\ tasks' = r.self._tasks.members
    /\ UNCHANGED <<syncVars, pickleVars, filterVars, cfgVars, units, nWrites, noLoopCalls,
                   deliverCalls, snaps, callerErrors, stopped, lockVars, restored>>

AsyncSetState ==
    /\ captured # NoDict
    /\ restored = NoDict
    /\ restored' = SetState(captured)
    /\ UNCHANGED <<syncVars, pickleVars, filterVars, cfgVars, tasks, units, nWrites, noLoopCalls,
                   deliverCalls, snaps, callerErrors, stopped, lockVars, captured>>

\* ------------------------------------------------ the synchronous sinks
\* the coroutine object returned by calling the destination's complete()
Coro == "coroutine"
\* a Message: its text, and whether its record carries an exception
SyncMessages == [text : {"m1", "m2"}, exc : BOOLEAN]
\* StreamSink.__init__ looks for a callable flush, a callable stop and a
\* coroutine function complete on the stream; the two other classes look
\* for nothing.
SyncSinks ==
    [variant : {"Stream"}, flushable : BOOLEAN, stoppable : BOOLEAN,
     completable : BOOLEAN]
        \cup [variant : {"Standard", "Callable"}, flushable : {FALSE},
              stoppable : {FALSE}, completable : {FALSE}]
NoResult == [called |-> FALSE, value |-> <<>>]

\* one call received by the destination
DestCall(op, msg, exc_info, exc_text) ==
    [op |-> op, msg |-> msg, exc_info |-> exc_info, exc_text |-> exc_text]

\* a write() that flushes before it writes
StreamWriteFlushFirst(sink, log, m) ==
    LET flushed == IF sink.flushable
                   THEN Append(log, DestCall("flush", None, None, None))
                   ELSE log
    IN  Append(flushed, DestCall("write", m.text, None, None))

StreamWrite(sink, log, m) ==
    LET written == Append(log, DestCall("write", m.text, None, None))
    IN  IF sink.flushable
        THEN Append(written, DestCall("flush", None, None, None))
        ELSE written

StreamStop(sink, log) ==
    IF sink.stoppable THEN Append(log, DestCall("stop", None, None, None)) ELSE log

\* a tasks_to_complete() that looks at the wrong capability
StreamTasksToCompleteIfStoppable(sink, log) ==
    IF ~sink.stoppable
    THEN [log |-> log, value |-> <<>>]
    ELSE [log |-> Append(log, DestCall("complete", None, None, None)),
          value |-> <<Coro>>]

StreamTasksToComplete(sink, log) ==
    IF ~sink.completable
    THEN [log |-> log, value |-> <<>>]
    ELSE [log |-> Append(log, DestCall("complete", None, None, None)),
          value |-> <<Coro>>]

\* makeRecord(name, level.no, path, line, str(message), (), exc triple or None, ...)
\* then exc_text = "\n" when there is an exception, then handler.handle(record)
StandardWrite(log, m) ==
    Append(log, DestCall("handle", m.text,
                         IF m.exc THEN "triple" ELSE None,
                         IF m.exc THEN "\n" ELSE None))

StandardStop(log) == Append(log, DestCall("close", None, None, None))

StandardTasksToComplete(log) == [log |-> log, value |-> <<>>]

CallableWrite(log, m) == Append(log, DestCall("call", m.text, None, None))

CallableStop(log) == log

CallableTasksToComplete(log) == [log |-> log, value |-> <<>>]

SyncWrite(m) ==
    /\ syncOps < MaxSyncOps
    /\ syncOps' = syncOps + 1
    /\ dest' = CASE syncSink.variant = "Stream" -> StreamWrite(syncSink, dest, m)
                 [] syncSink.variant = "Standard" -> StandardWrite(dest, m)
                 [] OTHER -> CallableWrite(dest, m)
    /\ UNCHANGED <<asyncVars, pickleVars, filterVars, syncSink, syncResult>>

SyncStop ==
    /\ syncOps < MaxSyncOps
    /\ syncOps' = syncOps + 1
    /\ dest' = CASE syncSink.variant = "Stream" -> StreamStop(syncSink, dest)
                 [] syncSink.variant = "Standard" -> StandardStop(dest)
                 [] OTHER -> CallableStop(dest)
    /\ UNCHANGED <<asyncVars, pickleVars, filterVars, syncSink, syncResult>>

SyncTasksToComplete ==
    /\ syncOps < MaxSyncOps
    /\ syncOps' = syncOps + 1
    /\ LET r == CASE syncSink.variant = "Stream" -> StreamTasksToComplete(syncSink, dest)
                  [] syncSink.variant = "Standard" -> StandardTasksToComplete(dest)
                  [] OTHER -> CallableTasksToComplete(dest)
       IN  /\ dest' = r.log
           /\ syncResult' = [called |-> TRUE, value |-> r.value]
    /\ UNCHANGED <<asyncVars, pickleVars, filterVars, syncSink>>

\* no synchronous sink in play
SyncIdle ==
    /\ syncSink = [variant |-> "Callable", flushable |-> FALSE,
                   stoppable |-> FALSE, completable |-> FALSE]
    /\ dest = <<>>
    /\ syncResult = NoResult
    /\ syncOps = 0

\* ------------------------------------------- RecordException and pickle
\* An exception value is an instance of a class with its args; "NoneType" is
\* the value None. A "HoldsFile" instance cannot be serialized (pickle.dumps
\* raises TypeError); a "BadInit" instance serializes, but its class cannot be
\* called with the saved args (pickle.loads raises TypeError).
NoValue == [cls |-> "NoneType", args |-> <<>>]
ExcClasses == {"Plain", "HoldsFile", "BadInit"}
ArgTuples == UNION {[1..n -> {"a", "b"}] : n \in 0..MaxArgs}
ExcValues == [cls : ExcClasses, args : ArgTuples] \cup {NoValue}
Tracebacks == {None, "tb"}
ExRecords ==
    [type : ExcClasses, value : ExcValues, traceback : Tracebacks]
        \cup {[type |-> None, value |-> NoValue, traceback |-> None]}
NoWire == [fn |-> None, type |-> None, value |-> NoValue, pickled |-> <<>>,
           traceback |-> None, raised |-> None]
NoRebuilt == [rec |-> [type |-> None, value |-> NoValue, traceback |-> None],
              raised |-> None]

\* pickle.dumps(value): the opcodes NONE, or GLOBAL cls, MARK, args, TUPLE, REDUCE
Dumps(v) ==
    IF v = NoValue THEN [raised |-> None, bytes |-> <<"N", ".">>]
    ELSE IF v.cls = "HoldsFile" THEN [raised |-> "TypeError", bytes |-> <<>>]
    ELSE [raised |-> None, bytes |-> <<"c", v.cls, "(">> \o v.args \o <<"t", "R", ".">>]

\* pickle.loads(bytes): runs the opcodes, i.e. calls the class on the args
Loads(b) ==
    IF b = <<"N", ".">> THEN [raised |-> None, value |-> NoValue]
    ELSE IF b[2] = "BadInit" THEN [raised |-> "TypeError", value |-> NoValue]
    ELSE [raised |-> None,
          value |-> [cls |-> b[2], args |-> SubSeq(b, 4, Len(b) - 3)]]

Reduce(r) ==
    LET d == Dumps(r.value)
    IN  IF d.raised \in ExceptionKinds
        THEN [fn |-> "RecordException", type |-> r.type, value |-> NoValue,
              pickled |-> <<>>, traceback |-> None, raised |-> None]
        ELSE [fn |-> "_from_pickled_value", type |-> r.type, value |-> NoValue,
              pickled |-> d.bytes, traceback |-> None, raised |-> d.raised]

\* _from_pickled_value without its try / except
FromPickledValueUnguarded(type_, pickled_value, traceback_) ==
    [rec |-> [type |-> type_, value |-> Loads(pickled_value).value,
              traceback |-> traceback_],
     raised |-> Loads(pickled_value).raised]

FromPickledValue(type_, pickled_value, traceback_) ==
    LET l == Loads(pickled_value)
    IN  IF l.raised \in ExceptionKinds
        THEN [rec |-> [type |-> type_, value |-> NoValue, traceback |-> traceback_],
              raised |-> None]
        ELSE [rec |-> [type |-> type_, value |-> l.value, traceback |-> traceback_],
              raised |-> l.raised]

\* the receiving side calls what __reduce__ returned on the arguments it returned
Rebuild(w) ==
    IF w.fn = "RecordException"
    THEN [rec |-> [type |-> w.type, value |-> w.value, traceback |-> w.traceback],
          raised |-> None]
    ELSE FromPickledValue(w.type, w.pickled, w.traceback)

PickleReduce ==
    /\ pkPc = "captured"
    /\ wire' = Reduce(exRecord)
    /\ pkPc' = "reduced"
    /\ UNCHANGED <<asyncVars, syncVars, filterVars, exRecord, rebuilt>>

PickleRebuild ==
    /\ pkPc = "reduced"
    /\ wire.raised = None
    /\ rebuilt' = Rebuild(wire)
    /\ pkPc' = "rebuilt"
    /\ UNCHANGED <<asyncVars, syncVars, filterVars, exRecord, wire>>

\* _from_pickled_value called on a payload with the traceback still at hand
PickleDirect ==
    /\ pkPc = "captured"
    /\ Dumps(exRecord.value).raised = None
    /\ rebuilt' = FromPickledValue(exRecord.type, Dumps(exRecord.value).bytes,
                                   exRecord.traceback)
    /\ pkPc' = "direct"
    /\ UNCHANGED <<asyncVars, syncVars, filterVars, exRecord, wire>>

\* no record being pickled
PickleIdle ==
    /\ exRecord = [type |-> None, value |-> NoValue, traceback |-> None]
    /\ wire = NoWire
    /\ rebuilt = NoRebuilt
    /\ pkPc = "idle"

\* -------------------------------------------------------- filter_by_level
\* A name is None or a string, here a sequence of characters.
NoName == [isNone |-> TRUE, chars |-> <<>>]
NameOf(chars) == [isNone |-> FALSE, chars |-> chars]
Names ==
    {NoName} \cup {NameOf(c) : c \in UNION {[1..n -> {"a", "."}] : n \in 0..MaxNameLen}}
\* An entry of the mapping is False or a level number.
FalseEntry == [isFalse |-> TRUE, no |-> 0]
LevelEntry(n) == [isFalse |-> FALSE, no |-> n]
Entries == {FalseEntry, LevelEntry(0), LevelEntry(20)}
\* record["level"].no
LevelNos == {10, 30}
RECURSIVE KeySets(_)
KeySets(n) ==
    IF n = 0 THEN {{}}
    ELSE KeySets(n - 1) \cup {K \cup {k} : K \in KeySets(n - 1), k \in Names}
Mappings == UNION {[K -> Entries] : K \in KeySets(MaxEntries)}

\* level_per_module.get(name): the entry, or None
Get(map, name) ==
    IF name \in DOMAIN map
    THEN [isNone |-> FALSE, entry |-> map[name]]
    ELSE [isNone |-> TRUE, entry |-> FalseEntry]

\* "not name": None and the empty string
Falsy(name) == name.isNone \/ name.chars = <<>>

\* name.rfind("."), counted from 1; 0 when there is no dot
RFind(chars) ==
    IF \E i \in DOMAIN chars : chars[i] = "."
    THEN CHOOSE i \in DOMAIN chars :
            chars[i] = "." /\ \A j \in DOMAIN chars : chars[j] = "." => j <= i
    ELSE 0

\* name[:index] if index != -1 else ""
Shorten(name) ==
    LET index == RFind(name.chars)
    IN  IF index # 0 THEN NameOf(SubSeq(name.chars, 1, index - 1)) ELSE NameOf(<<>>)

\* a test "if not level" in place of "if level is False"
LevelDecisionFalsy(entry, no) ==
    IF entry.isFalse \/ entry.no = 0 THEN FALSE ELSE no >= entry.no

\* the value returned for an entry that is not None
LevelDecision(entry, no) ==
    IF entry.isFalse THEN FALSE ELSE no >= entry.no

\* one pass through the "while True" loop
FilterStep ==
    /\ fPc = "loop"
    /\ fIter' = fIter + 1
    /\ LET level == Get(fMap, fCur)
       IN  IF ~level.isNone
           THEN /\ fRet' = LevelDecision(level.entry, fLevel)
                /\ fPc' = "done"
                /\ fCur' = fCur
           ELSE IF Falsy(fCur)
           THEN /\ fRet' = TRUE
                /\ fPc' = "done"
                /\ fCur' = fCur
           ELSE /\ fCur' = Shorten(fCur)
                /\ UNCHANGED <<fPc, fRet>>
    /\ UNCHANGED <<asyncVars, syncVars, pickleVars, fName, fLevel, fMap>>

\* no call of filter_by_level
FilterIdle ==
    /\ fName = NoName
    /\ fLevel = 0
    /\ fMap = [k \in {} |-> FalseEntry]
    /\ fCur = NoName
    /\ fPc = "idle"
    /\ fRet = FALSE
    /\ fIter = 0

\* an asynchronous sink just constructed: AsyncSink(function, loop, error_interceptor)
AsyncInit ==
    /\ sinkLoop \in BoundLoops
    /\ shouldCatch \in BOOLEAN
    /\ handlerId \in HandlerIds
    /\ tasks = {}
    /\ units = <<>>
    /\ nWrites = 0
    /\ noLoopCalls = 0
    /\ deliverCalls = 0
    /\ snaps = <<>>
    /\ callerErrors = <<>>
    /\ stopped = FALSE
    /\ lock = Free
    /\ dpc = "idle"
    /\ relog = {}
    /\ captured = NoDict
    /\ restored = NoDict

Init == AsyncInit /\ SyncIdle /\ PickleIdle /\ FilterIdle

Next ==
    \/ \E m \in Messages, r \in Loops \cup {None} : AsyncWrite(m, r)
    \/ AsyncStop
    \/ \E i \in DOMAIN units, o \in {"cancelled", "continue", "ok", "failed"} : UnitStep(i, o)
    \/ \E i \in DOMAIN units, env \in StderrEnvs : RunObserver(i, env)
    \/ \E i \in DOMAIN units : Reclaim(i)
    \/ AsyncTasksToComplete
    \/ \E s \in DOMAIN snaps : \E k \in DOMAIN snaps[s].handles : \E l \in Loops :
          AwaitHandle(s, k, l)
    \/ \E s \in DOMAIN snaps : \E k \in DOMAIN snaps[s].handles : ResumeHandle(s, k)

Spec == Init /\ [][Next]_vars

\* no asynchronous sink in play
AsyncIdle == AsyncInit /\ sinkLoop = None /\ ~shouldCatch /\ handlerId = 0

SyncInit ==
    /\ AsyncIdle
    /\ PickleIdle
    /\ FilterIdle
    /\ syncSink \in SyncSinks
    /\ dest = <<>>
    /\ syncResult = NoResult
    /\ syncOps = 0

SyncNext ==
    \/ \E m \in SyncMessages : SyncWrite(m)
    \/ SyncStop
    \/ SyncTasksToComplete

SyncSpec == SyncInit /\ [][SyncNext]_vars

PickleInit ==
    /\ AsyncIdle
    /\ SyncIdle
    /\ FilterIdle
    /\ exRecord \in ExRecords
    /\ wire = NoWire
    /\ rebuilt = NoRebuilt
    /\ pkPc = "captured"

PickleNext ==
    \/ PickleReduce
    \/ PickleRebuild
    \/ PickleDirect

PickleSpec == PickleInit /\ [][PickleNext]_vars

\* an asynchronous sink at work, copied at some point of its life
CopyNext ==
    \/ \E m \in Messages, r \in Loops \cup {None} : AsyncWrite(m, r)
    \/ AsyncStop
    \/ \E i \in DOMAIN units, o \in {"cancelled", "continue", "ok", "failed"} : UnitStep(i, o)
    \/ \E i \in DOMAIN units, env \in StderrEnvs : RunObserver(i, env)
    \/ \E i \in DOMAIN units : Reclaim(i)
    \/ AsyncGetState
    \/ AsyncSetState

CopySpec == Init /\ [][CopyNext]_vars

\* a call filter_by_level(record, level_per_module)
FilterInit ==
    /\ AsyncIdle
    /\ SyncIdle
    /\ PickleIdle
    /\ fName \in Names
    /\ fLevel \in LevelNos
    /\ fMap \in Mappings
    /\ fCur = fName
    /\ fPc = "loop"
    /\ fRet = FALSE
    /\ fIter = 0

FilterNext == FilterStep

\* the call runs on: a loop that can make a pass makes it
FilterSpec == FilterInit /\ [][FilterNext]_vars /\ WF_vars(FilterNext)

\* ------------------------------------------------- the Handler's lock
\* The Handler (not part of these sources) takes its lock around write() and
\* around stop() and tasks_to_complete(), and awaits the handles after
\* releasing it. The delivery function of a unit may log again: the unit then
\* takes the same lock for a write() of its own before it can finish.
Holder(by, id) == [by |-> by, id |-> id]

PendingRelog == {i \in relog : units[i].st = "pending"}

\* a producer thread enters Handler.emit
PAcquire ==
    /\ lock = Free
    /\ nWrites + Cardinality(PendingRelog) < MaxWrites
    /\ lock' = Holder("producer", 0)
    /\ UNCHANGED <<otherVars, cfgVars, tasks, units, nWrites, noLoopCalls, deliverCalls, snaps,
                   callerErrors, stopped, dpc, relog>>

\* write(m) under the lock, which is then released; `again` tells whether the
\* delivery function of this message logs again
PWrite(m, running, again) ==
    /\ lock = Holder("producer", 0)
    /\ nWrites' = nWrites + 1
    /\ noLoopCalls' = IF sinkLoop = None /\ running = None
                      THEN noLoopCalls + 1 ELSE noLoopCalls
    /\ Write(m, running)
    /\ relog' = IF /\ again
                   /\ Len(units') > Len(units)
                   /\ nWrites + Cardinality(PendingRelog) + 2 <= MaxWrites
                THEN relog \cup {Len(units')} ELSE relog
    /\ lock' = Free
    /\ UNCHANGED <<otherVars, cfgVars, snaps, callerErrors, stopped, dpc>>

\* the delivery function of unit i logs: it enters Handler.emit
UAcquire(i) ==
    /\ i \in PendingRelog
    /\ lock = Free
    /\ lock' = Holder("unit", i)
    /\ UNCHANGED <<otherVars, cfgVars, tasks, units, nWrites, noLoopCalls, deliverCalls, snaps,
                   callerErrors, stopped, dpc, relog>>

\* the re-entrant write(m) of unit i, made on the unit's loop
UWrite(i, m) ==
    /\ lock = Holder("unit", i)
    /\ nWrites' = nWrites + 1
    /\ UNCHANGED noLoopCalls
    /\ Write(m, units[i].loop)
    /\ relog' = relog \ {i}
    /\ lock' = Free
    /\ UNCHANGED <<otherVars, cfgVars, snaps, callerErrors, stopped, dpc>>

\* a unit runs; one that has still to log cannot finish, but can be cancelled
\* before it gets to log
LUnitStep(i, outcome) ==
    /\ i \in relog => outcome = "cancelled"
    /\ UnitStep(i, outcome)

\* shutdown: the Handler takes the lock
DAcquire ==
    /\ dpc = "idle"
    /\ lock = Free
    /\ lock' = Holder("drainer", 0)
    /\ dpc' = "locked"
    /\ UNCHANGED <<otherVars, cfgVars, tasks, units, nWrites, noLoopCalls, deliverCalls, snaps,
                   callerErrors, stopped, relog>>

\* ... calls stop() ...
DStop ==
    /\ dpc = "locked"
    /\ ~stopped
    /\ Stop
    /\ UNCHANGED <<otherVars, cfgVars, tasks, nWrites, noLoopCalls, deliverCalls, snaps,
                   callerErrors, lockVars>>

\* ... collects tasks_to_complete() ...
DCollect ==
    /\ dpc = "locked"
    /\ Collect
    /\ dpc' = "collected"
    /\ UNCHANGED <<otherVars, cfgVars, tasks, units, nWrites, noLoopCalls, deliverCalls,
                   callerErrors, stopped, lock, relog>>

\* ... releases the lock ...
DRelease ==
    /\ dpc = "collected"
    /\ lock' = Free
    /\ dpc' = "awaiting"
    /\ UNCHANGED <<otherVars, cfgVars, tasks, units, nWrites, noLoopCalls, deliverCalls, snaps,
                   callerErrors, stopped, relog>>

\* ... and awaits the handles one after the other, on one loop
DAwait(k, loop) ==
    /\ dpc = "awaiting"
    /\ k \in DOMAIN snaps[1].handles
    /\ \A j \in 1..(k - 1) :
          snaps[1].handles[j].st = "returned" /\ snaps[1].handles[j].on = loop
    /\ AwaitHandle(1, k, loop)

DResume(k) ==
    /\ dpc = "awaiting"
    /\ k \in DOMAIN snaps[1].handles
    /\ ResumeHandle(1, k)

\* the drain is over: every handle returned, or one raised into the drainer
DFinish ==
    /\ dpc = "awaiting"
    /\ \/ /\ \A k \in DOMAIN snaps[1].handles : snaps[1].handles[k].st = "returned"
          /\ dpc' = "done"
       \/ /\ \E k \in DOMAIN snaps[1].handles : snaps[1].handles[k].st = "raised"
          /\ dpc' = "aborted"
    /\ UNCHANGED <<otherVars, cfgVars, tasks, units, nWrites, noLoopCalls, deliverCalls, snaps,
                   callerErrors, stopped, lock, relog>>

\* What the lock does not depend on is kept to one value here: the message,
\* the handler id and the state of sys.stderr.
LockMessages == {"m1"}
LockEnvs == {[mode |-> "ok", step |-> 0]}
LockInit == Init /\ handlerId = 0

LockNext ==
    \/ PAcquire
    \/ \E m \in LockMessages, r \in Loops \cup {None}, a \in BOOLEAN : PWrite(m, r, a)
    \/ \E i \in DOMAIN units : UAcquire(i)
    \/ \E i \in DOMAIN units, m \in LockMessages : UWrite(i, m)
    \/ \E i \in DOMAIN units, o \in {"cancelled", "continue", "ok", "failed"} :
          LUnitStep(i, o)
    \/ \E i \in DOMAIN units, env \in LockEnvs : RunObserver(i, env)
    \/ \E i \in DOMAIN units : Reclaim(i)
    \/ DAcquire
    \/ DStop
    \/ DCollect
    \/ DRelease
    \/ \E k \in 1..MaxWrites, l \in Loops : DAwait(k, l)
    \/ \E k \in 1..MaxWrites : DResume(k)
    \/ DFinish

\* Threads and event loops keep running: whoever can take a step takes it,
\* and a delivery function that is not blocked terminates.
LockFairness ==
    /\ WF_vars(\E m \in LockMessages, r \in Loops \cup {None}, a \in BOOLEAN : PWrite(m, r, a))
    /\ \A i \in 1..MaxWrites : WF_vars(UAcquire(i))
    /\ \A i \in 1..MaxWrites : WF_vars(\E m \in LockMessages : UWrite(i, m))
    /\ \A i \in 1..MaxWrites :
          WF_vars(\E o \in {"cancelled", "ok", "failed"} : LUnitStep(i, o))
    /\ \A i \in 1..MaxWrites : WF_vars(\E env \in LockEnvs : RunObserver(i, env))
    /\ WF_vars(DAcquire)
    /\ WF_vars(DCollect)
    /\ WF_vars(DRelease)
    /\ WF_vars(\E k \in 1..MaxWrites, l \in Loops : DAwait(k, l))
    /\ WF_vars(\E k \in 1..MaxWrites : DResume(k))
    /\ WF_vars(DFinish)

LockSpec == LockInit /\ [][LockNext]_vars /\ LockFairness


\* ------------------------------------------------------------- properties
Ran(u) == u.obs \in {"returned", "raised"}

\* C1: with catch enabled, a unit whose delivery failed and whose completion
\* observer has run (the diagnostic destination being usable) has printed
\* exactly one diagnostic block - header with the handler id, the record's
\* text, the traceback of the failure, footer - and raised nothing into the
\* loop; no write() call has raised.
C1_CaughtFailurePrintsOneBlock ==
    \A i \in DOMAIN units :
        (shouldCatch /\ units[i].st = "failed" /\ Ran(units[i])
            /\ units[i].env.mode = "ok")
        => /\ units[i].out =
                << [line |-> "header", text |-> handlerId],
                   [line |-> "record",
                    text |-> IF units[i].msg = "bad" THEN Unprintable ELSE units[i].msg],
                   [line |-> "traceback", text |-> DeliveryError],
                   [line |-> "footer", text |-> None] >>
           /\ units[i].errs = <<>>
           /\ units[i].obs = "returned"
           /\ callerErrors = <<>>

C1_Witness ==
    \E i \in DOMAIN units :
        /\ shouldCatch /\ units[i].st = "failed" /\ units[i].obs = "returned"
        /\ units[i].env.mode = "ok" /\ units[i].msg = "m1"
        /\ Len(units[i].out) = 4 /\ nWrites = 1

\* C2: with catch disabled, a unit whose delivery failed and whose completion
\* observer has run has had its failure raised into the loop's exception
\* handler, exactly once, print was not called for it and nothing was printed;
\* no write() call has raised.
C2_UncaughtFailureReachesLoop ==
    \A i \in DOMAIN units :
        (~shouldCatch /\ units[i].st = "failed" /\ Ran(units[i]))
        => /\ units[i].errs = <<DeliveryError>>
           /\ units[i].out = <<>>
           /\ units[i].env = NoEnv
           /\ callerErrors = <<>>

C2_Witness ==
    \E i \in DOMAIN units :
        /\ ~shouldCatch /\ units[i].st = "failed" /\ units[i].obs = "raised"
        /\ units[i].errs = <<DeliveryError>>

\* C3: every handle of a snapshot taken after stop() that has been awaited
\* and has finished has returned normally, raising nothing into the drainer.
C3_DrainHandlesReturnNormally ==
    \A s \in DOMAIN snaps : \A k \in DOMAIN snaps[s].handles :
        LET h == snaps[s].handles[k]
        IN (snaps[s].afterStop /\ h.on = units[h.unit].loop
                /\ h.st \in {"returned", "raised"})
           => h.st = "returned"

\* C4: the completion observer that has run for a cancelled unit has returned
\* normally, printed nothing and raised nothing into the loop.
C4_CancelledObserverDoesNothing ==
    \A i \in DOMAIN units :
        (units[i].st = "cancelled" /\ Ran(units[i]))
        => /\ units[i].obs = "returned"
           /\ units[i].errs = <<>>
           /\ units[i].out = <<>>

\* C5: a write() call made with no bound loop and no running loop raises
\* nothing, does not call the delivery function, schedules no unit and leaves
\* the tracked set as it was.
C5_NoLoopWriteIsDropped ==
    [][noLoopCalls' = noLoopCalls + 1
        => /\ units' = units
           /\ tasks' = tasks
           /\ deliverCalls' = deliverCalls
           /\ callerErrors' = <<>>]_vars

C5_Witness ==
    /\ noLoopCalls = 1 /\ nWrites = 2 /\ Len(units) = 1 /\ tasks = {1}

C7_DrainNeverDeadlocks ==
    /\ <>(dpc \in {"done", "aborted"})
    /\ [](dpc = "locked" => ENABLED DCollect)
    /\ [](dpc = "locked" /\ ~stopped => ENABLED DStop)
    /\ [](lock.by = "producer" =>
            ENABLED (\E m \in LockMessages, r \in Loops \cup {None}, a \in BOOLEAN :
                        PWrite(m, r, a)))
    /\ [](lock.by = "unit" => ENABLED (\E m \in LockMessages : UWrite(lock.id, m)))

\* the drainer is suspended on the handle of a unit that, to finish, is making
\* a write of its own under the lock
C7_Witness ==
    /\ dpc = "awaiting"
    /\ lock.by = "unit"
    /\ \E k \in DOMAIN snaps[1].handles :
          snaps[1].handles[k].st = "waiting" /\ snaps[1].handles[k].unit = lock.id

\* C9: every call of ErrorInterceptor.print that has been made has returned
\* without raising, whatever sys.stderr did.
C9_PrintNeverRaises ==
    \A i \in DOMAIN units :
        units[i].env # NoEnv => units[i].errs = <<>> /\ units[i].obs = "returned"

\* C8 (as stated): whatever the synchronous sink and its destination, every
\* tasks_to_complete() call returned an empty sequence.
C8_SyncTasksAlwaysEmpty ==
    syncResult.called => syncResult.value = <<>>

\* C8 (amended): tasks_to_complete() of a Standard or a Callable sink returns
\* an empty sequence, and so does that of a Stream sink whose destination has
\* no coroutine function complete; for a Stream sink whose destination has
\* one it returns exactly one awaitable, the result of calling complete().
C8_EmptyUnlessCompletableStream ==
    syncResult.called =>
        syncResult.value =
            IF syncSink.variant = "Stream" /\ syncSink.completable
            THEN <<Coro>>
            ELSE <<>>

C8_Witness ==
    /\ syncResult.called
    /\ syncSink.variant = "Stream"
    /\ syncSink.completable
    /\ syncResult.value = <<Coro>>
    /\ \E k \in DOMAIN dest : dest[k].op = "write"

\* C10: reducing a RecordException and rebuilding it raises nothing, keeps the
\* type and gives traceback None; the value is None when serializing it
\* raised, equal to the original when it serializes and deserializes, and
\* None when deserializing raised, in which case _from_pickled_value returns
\* (type, None, the traceback it was passed).
C10_PickleRoundTrip ==
    /\ pkPc \in {"reduced", "rebuilt"} => wire.raised = None /\ wire.traceback = None
    /\ pkPc \in {"rebuilt", "direct"} =>
          /\ rebuilt.raised = None
          /\ rebuilt.rec.type = exRecord.type
          /\ rebuilt.rec.traceback = IF pkPc = "rebuilt" THEN None ELSE exRecord.traceback
          /\ exRecord.value.cls \in {"HoldsFile", "BadInit"} => rebuilt.rec.value = NoValue
          /\ exRecord.value.cls \in {"Plain", "NoneType"} =>
                rebuilt.rec.value = exRecord.value

C10_Witness ==
    /\ pkPc = "rebuilt"
    /\ exRecord.value.cls = "HoldsFile"
    /\ exRecord.traceback # None
    /\ rebuilt.rec = [type |-> exRecord.type, value |-> NoValue, traceback |-> None]

\* the calls of the given kinds that the destination received, in order
DestCalls(ops) == SelectSeq(dest, LAMBDA c : c.op \in ops)

\* C11: on a Stream sink every write() call appends, after everything the
\* destination has already received, one write of its message followed by
\* exactly one flush when the destination has a callable flush, and the write
\* alone when it has none; so the destination sees write, flush, write,
\* flush, ... in call order, or only the writes.
C11_WriteThenFlushInOrder ==
    /\ [][\A m \in SyncMessages :
            SyncWrite(m) /\ syncSink.variant = "Stream" =>
                dest' = dest \o
                    (IF syncSink.flushable
                     THEN <<DestCall("write", m.text, None, None),
                            DestCall("flush", None, None, None)>>
                     ELSE <<DestCall("write", m.text, None, None)>>)]_vars
    /\ [](syncSink.variant = "Stream" =>
            LET io == DestCalls({"write", "flush"})
            IN  /\ Len(DestCalls({"write"})) <= syncOps
                /\ ~syncSink.flushable => DestCalls({"flush"}) = <<>>
                /\ syncSink.flushable =>
                      \A k \in DOMAIN io :
                          io[k].op = (IF k % 2 = 1 THEN "write" ELSE "flush"))

C11_Witness ==
    /\ syncSink.variant = "Stream"
    /\ syncSink.flushable
    /\ Len(dest) >= 4
    /\ SubSeq(dest, Len(dest) - 3, Len(dest)) =
          <<DestCall("write", "m2", None, None), DestCall("flush", None, None, None),
            DestCall("write", "m1", None, None), DestCall("flush", None, None, None)>>

\* C12: once stop() has been called, a write() call schedules no unit and
\* adds nothing to the tracked set.
C12_NoNewWorkAfterStop ==
    [][stopped /\ nWrites' = nWrites + 1 =>
          units' = units /\ tasks' = tasks /\ deliverCalls' = deliverCalls]_vars

\* C13: after stop(), a step in which a completion observer runs schedules
\* nothing: no unit is created, the delivery function is not called and the
\* tracked set does not grow.
C13_ObserverSchedulesNothing ==
    [][stopped /\ (\E i \in DOMAIN units :
                      units[i].obs = "due" /\ units'[i].obs # "due") =>
          /\ Len(units') = Len(units)
          /\ deliverCalls' = deliverCalls
          /\ tasks' \subseteq tasks]_vars

\* a unit asked to cancel by stop() that ended afterwards, its observer run
C13_Witness ==
    /\ stopped
    /\ \E i \in DOMAIN units :
          units[i].st = "cancelled" /\ units[i].obs \in {"returned", "raised"}

\* C14 (amended): a stop() call requests cancellation of every pending unit
\* of the tracked set and changes nothing else: no unit changes state during
\* the call, units that are done and units outside the set are untouched,
\* the set keeps its members, and a stop() that finds every pending tracked
\* unit already asked to cancel changes nothing at all.
C14_StopRequestsCancellation ==
    [][AsyncStop =>
          /\ tasks' = tasks
          /\ stopped'
          /\ DOMAIN units' = DOMAIN units
          /\ \A i \in DOMAIN units :
                /\ units'[i].st = units[i].st
                /\ i \in tasks /\ units[i].st = "pending" => units'[i].cancelReq
                /\ i \notin tasks \/ units[i].st # "pending" => units'[i] = units[i]
                /\ units[i].cancelReq => units'[i] = units[i]]_vars

C14_Witness ==
    /\ stopped
    /\ \E i, j \in tasks :
          /\ units[i].st = "pending" /\ units[i].cancelReq
          /\ units[j].st = "ok" /\ ~units[j].cancelReq

\* C14 (as stated): a stop() call made after stop() has already been called
\* has no further effect.
C14_SecondStopDoesNothing ==
    [][stopped /\ AsyncStop => UNCHANGED vars]_vars

\* C15: the sink made by __setstate__ from the state of __getstate__ has an
\* empty tracked set and the function, the bound loop and the interceptor of
\* the original; taking the state leaves the original's tracked set, and its
\* units, as they were.
C15_RestoredSinkStartsEmpty ==
    /\ [](restored # NoDict =>
            restored = [_function |-> "function", _loop |-> sinkLoop,
                        _error_interceptor |-> [_should_catch |-> shouldCatch,
                                                _handler_id |-> handlerId],
                        _tasks |-> WeakSet({})])
    /\ [](captured # NoDict => captured._tasks = NoneTasks)
    /\ [][captured' # captured => tasks' = tasks /\ units' = units]_vars

C15_Witness ==
    /\ restored # NoDict
    /\ restored._loop = "L1"
    /\ restored._error_interceptor._handler_id = 7
    /\ restored._tasks.members = {}
    /\ \E i \in tasks : units[i].st = "pending"

\* the handles returned so far, as (snapshot, position) pairs
AllHandles == {<<s, k>> : s \in DOMAIN snaps, k \in 1..MaxWrites} \cap
              {p \in (DOMAIN snaps) \X (1..MaxWrites) : p[2] \in DOMAIN snaps[p[1]].handles}
HandleAt(p) == snaps[p[1]].handles[p[2]]

\* C16: a handle awaited on the loop of its unit has not finished before the
\* unit has; when the unit failed the handle returns normally, nothing is
\* raised into the caller, and the failure is reported by the observer alone
\* and once: nothing before it has run, then one diagnostic block at most, or
\* one error into the loop.
C16_SameLoopHandleSwallowsFailure ==
    \A p \in AllHandles :
        LET h == HandleAt(p)
            u == units[h.unit]
        IN  h.on = u.loop /\ h.st \in {"returned", "raised"} =>
                /\ u.st # "pending"
                /\ u.st = "failed" =>
                      /\ h.st = "returned"
                      /\ callerErrors = <<>>
                      /\ ~Ran(u) => u.errs = <<>> /\ u.out = <<>>
                      /\ Len(u.errs) <= 1
                      /\ Len(SelectSeq(u.out, LAMBDA l : l = PrintLines(handlerId, u.msg, DeliveryError)[1])) <= 1
                      /\ Ran(u) /\ ~shouldCatch =>
                            u.errs = <<DeliveryError>> /\ u.out = <<>>
                      /\ Ran(u) /\ shouldCatch /\ u.env.mode = "ok" =>
                            u.errs = <<>> /\ u.out = PrintLines(handlerId, u.msg, DeliveryError)

C16_Witness ==
    \E p \in AllHandles :
        LET h == HandleAt(p)
            u == units[h.unit]
        IN  /\ h.on = u.loop
            /\ h.st = "returned"
            /\ u.st = "failed"
            /\ shouldCatch
            /\ u.out = PrintLines(handlerId, u.msg, DeliveryError)

\* C17: once stop() has been called, no handle stays suspended on a unit that
\* caught the cancellation and went on running.
C17_ShieldedUnitNotAwaited ==
    \A p \in AllHandles :
        LET h == HandleAt(p)
            u == units[h.unit]
        IN  ~(snaps[p[1]].afterStop /\ h.st = "waiting" /\ u.st = "pending" /\ u.shielded)

\* C18: a handle awaited on a loop that is not the loop of its unit has
\* returned, whatever the state of the unit; and every unit of a sink with a
\* bound loop is on that loop.
C18_CrossLoopHandleReturnsAtOnce ==
    /\ \A p \in AllHandles :
          LET h == HandleAt(p)
          IN  h.on # None /\ h.on # units[h.unit].loop => h.st = "returned"
    /\ sinkLoop # None => \A i \in DOMAIN units : units[i].loop = sinkLoop

C18_Witness ==
    /\ sinkLoop = "L1"
    /\ \E p \in AllHandles :
          LET h == HandleAt(p)
          IN  /\ h.on = "L2"
              /\ h.st = "returned"
              /\ units[h.unit].loop = "L1"
              /\ units[h.unit].st = "pending"
    /\ \A p \in AllHandles : HandleAt(p).st = "returned"

\* C19: the handles of a returned list keep their number, their order and
\* their units whatever happens afterwards, and the unit of a handle that
\* has not finished being awaited is in the tracked set.
C19_SnapshotIsStable ==
    /\ [][\A s \in DOMAIN snaps :
            /\ s \in DOMAIN snaps'
            /\ DOMAIN snaps'[s].handles = DOMAIN snaps[s].handles
            /\ \A k \in DOMAIN snaps[s].handles :
                  snaps'[s].handles[k].unit = snaps[s].handles[k].unit]_vars
    /\ [](\A p \in AllHandles :
            HandleAt(p).st \in {"new", "waiting"} => HandleAt(p).unit \in tasks)

\* a unit written after the call is tracked and not in the list, while a
\* unit of the list, done and observed, is kept by its handle
C19_Witness ==
    /\ Len(snaps) = 1
    /\ \E p \in AllHandles :
          /\ HandleAt(p).st = "new"
          /\ units[HandleAt(p).unit].st = "ok"
          /\ Ran(units[HandleAt(p).unit])
    /\ \E j \in tasks : \A p \in AllHandles : HandleAt(p).unit # j

\* C20: every write() made with a loop available calls the delivery function
\* once and appends one pending unit, observer attached, after the units
\* already scheduled, the unit being in the tracked set from that step on;
\* the delivery function is called at no other time.
C20_OneUnitPerWriteInOrder ==
    /\ [](deliverCalls = Len(units) /\ Len(units) = nWrites - noLoopCalls)
    /\ [][nWrites' = nWrites + 1 /\ noLoopCalls' = noLoopCalls =>
            /\ Len(units') = Len(units) + 1
            /\ SubSeq(units', 1, Len(units)) = units
            /\ units'[Len(units')].st = "pending"
            /\ units'[Len(units')].obs = "attached"
            /\ tasks' = tasks \cup {Len(units')}]_vars
    /\ [][deliverCalls' # deliverCalls =>
            nWrites' = nWrites + 1 /\ deliverCalls' = deliverCalls + 1]_vars

\* the second unit has failed, the first is still pending, nothing was retried
C20_Witness ==
    /\ Len(units) = 2
    /\ deliverCalls = 2
    /\ units[1].st = "pending"
    /\ units[2].st = "failed"
    /\ Ran(units[2])

\* the prefixes of a name that end just before one of its dots
DottedPrefixes(chars) ==
    {SubSeq(chars, 1, i - 1) : i \in {j \in DOMAIN chars : chars[j] = "."}}

\* the keys looked up for a name: the name, its dotted prefixes and the empty
\* name; for the name None, None alone
LookupKeys(name) ==
    IF name.isNone THEN {NoName}
    ELSE {NameOf(c) : c \in {name.chars} \cup DottedPrefixes(name.chars) \cup {<<>>}}

\* the same, with the empty name looked up last for every name
LookupKeysThenEmpty(name) == LookupKeys(name) \cup {NameOf(<<>>)}

\* the decision of the most specific of the keys that has an entry: the name
\* itself first, then the longest prefix; True when none has an entry
DecisionOf(keys) ==
    LET found == keys \cap DOMAIN fMap
        rank(k) == IF k.isNone THEN MaxNameLen + 1 ELSE Len(k.chars)
    IN  IF found = {} THEN TRUE
        ELSE LET best == CHOOSE k \in found : \A j \in found : rank(j) <= rank(k)
             IN  IF fMap[best].isFalse THEN FALSE ELSE fLevel >= fMap[best].no

\* C21 (amended): filter_by_level returns, after at most one pass per
\* character of the name plus one, the decision of the most specific entry
\* among the name, its successively shorter dotted prefixes and the empty
\* name, or True when there is none; for the name None it looks up None
\* alone and never the empty name.
C21_MostSpecificEntryDecides ==
    /\ <>(fPc = "done")
    /\ [](fIter <= Len(fName.chars) + 1)
    /\ [](fPc = "done" => fRet = DecisionOf(LookupKeys(fName)))

C21_Witness ==
    /\ fPc = "done"
    /\ fName = NameOf(<<"a", ".">>)
    /\ DOMAIN fMap = {NameOf(<<"a">>), NameOf(<<>>)}
    /\ fMap[NameOf(<<"a">>)] = LevelEntry(0)
    /\ fMap[NameOf(<<>>)] = FalseEntry
    /\ fIter = 2
    /\ fRet

\* C21 (as stated): for every name, None included, the empty name is the
\* last key looked up before True is returned.
C21_EmptyNameIsAlwaysLast ==
    fPc = "done" => fRet = DecisionOf(LookupKeysThenEmpty(fName))

=============================================================================
